---- MODULE Spec2Model ----
(***************************************************************************)
(* P-M interaction diagram page (src/script.js).                           *)
(*                                                                         *)
(* The state is the page: the eight form fields, the module-level chart    *)
(* handle pmChart, the Chart objects created so far, the two summary text  *)
(* nodes, and the locals of the last calculateAndDraw call that ran to its *)
(* end.  Every event handler is calculateAndDraw, run to completion.       *)
(*                                                                         *)
(* Numbers are JavaScript numbers restricted to NaN and the rationals:     *)
(* a number is a pair <<n, d>>, d > 0 in lowest terms, and NaN is <<0,0>>. *)
(* Arithmetic is exact (the rounding of IEEE doubles is not modelled);     *)
(* NaN propagates through arithmetic and makes every comparison false, as  *)
(* in JavaScript.                                                          *)
(***************************************************************************)
EXTENDS Integers, Sequences, FiniteSets

(***************************************************************************)
(* Numbers                                                                 *)
(***************************************************************************)
NaN == <<0, 0>>

Abs(n) == IF n < 0 THEN -n ELSE n

RECURSIVE GCD(_, _)
GCD(a, b) == IF b = 0 THEN a ELSE GCD(b, a % b)

\* n/d in lowest terms with a positive denominator (d # 0)
Norm(n, d) ==
    LET g == GCD(Abs(n), Abs(d))
    IN  IF d < 0 THEN <<(-n) \div g, (-d) \div g>> ELSE <<n \div g, d \div g>>

Num(n) == <<n, 1>>

isNaN(q) == q[2] = 0

QNeg(q) == IF isNaN(q) THEN NaN ELSE <<-q[1], q[2]>>

QAdd(p, q) ==
    IF isNaN(p) \/ isNaN(q) THEN NaN
    ELSE LET g == GCD(p[2], q[2])
         IN  Norm(p[1] * (q[2] \div g) + q[1] * (p[2] \div g), p[2] * (q[2] \div g))

QSub(p, q) == QAdd(p, QNeg(q))

QMul(p, q) ==
    IF isNaN(p) \/ isNaN(q) THEN NaN
    ELSE LET g1 == GCD(Abs(p[1]), q[2])
             g2 == GCD(Abs(q[1]), p[2])
         IN  <<(p[1] \div g1) * (q[1] \div g2), (p[2] \div g2) * (q[2] \div g1)>>

\* The quotient by zero (an infinity or NaN in JavaScript) is outside the
\* rationals; no division of the program reaches it for the inputs of this
\* model, whose depth h is never zero (the only divisors are c = ratio * h,
\* ny - 1 with ny > 2, and literals).
QDiv(p, q) ==
    IF isNaN(p) \/ isNaN(q) \/ q[1] = 0 THEN NaN
    ELSE QMul(p, Norm(q[2], q[1]))

\* a/b < c/d for b, d > 0, by comparing integer parts and then the
\* reciprocals of the fractional parts
RECURSIVE FracLt(_, _, _, _)
FracLt(a, b, c, d) ==
    LET qa == a \div b
        qc == c \div d
        ra == a % b
        rc == c % d
    IN  IF qa # qc THEN qa < qc
        ELSE IF rc = 0 THEN FALSE
        ELSE IF ra = 0 THEN TRUE
        ELSE FracLt(d, rc, b, ra)

QLt(p, q) == ~isNaN(p) /\ ~isNaN(q) /\ FracLt(p[1], p[2], q[1], q[2])
QGt(p, q) == QLt(q, p)
QLe(p, q) == ~isNaN(p) /\ ~isNaN(q) /\ ~FracLt(q[1], q[2], p[1], p[2])
QGe(p, q) == QLe(q, p)

Zero == Num(0)


(***************************************************************************)
(* Constants of the script                                                 *)
(***************************************************************************)
Es == Num(2040000)            \* steel modulus, kgf/cm^2
epsilon_cu == <<3, 1000>>     \* concrete ultimate strain

\* Variant of c_ratios with 0.5 listed before 0.55 (Thm_C1 depends on the order)
c_ratios_swapped ==
    << <<2, 1>>, <<3, 2>>, <<6, 5>>, <<11, 10>>, <<1, 1>>,
       <<9, 10>>, <<4, 5>>, <<7, 10>>, <<3, 5>>, <<1, 2>>, <<11, 20>>,
       <<9, 20>>, <<2, 5>>, <<7, 20>>, <<3, 10>>, <<1, 4>>, <<1, 5>>,
       <<3, 20>>, <<1, 10>>, <<1, 20>> >>

\* c/h ratios of the sweep, in the order of the array literal
c_ratios ==
    << <<2, 1>>, <<3, 2>>, <<6, 5>>, <<11, 10>>, <<1, 1>>,
       <<9, 10>>, <<4, 5>>, <<7, 10>>, <<3, 5>>, <<11, 20>>, <<1, 2>>,
       <<9, 20>>, <<2, 5>>, <<7, 20>>, <<3, 10>>, <<1, 4>>, <<1, 5>>,
       <<3, 20>>, <<1, 10>>, <<1, 20>> >>

(***************************************************************************)
(* The form: a field's value is the text of an <input> or <select>.  A     *)
(* text is either a decimal numeral (num, with its value q) or something   *)
(* that no number can be read from (empty, "abc").                         *)
(***************************************************************************)
Numeral(n, d) == [num |-> TRUE, q |-> Norm(n, d)]
Junk == [num |-> FALSE, q |-> Zero]

parseFloat(s) == IF s.num THEN s.q ELSE NaN

\* parseInt reads the leading integer digits: the value truncated toward zero
parseInt(s) ==
    IF ~s.num THEN NaN
    ELSE IF s.q[1] >= 0 THEN Num(s.q[1] \div s.q[2])
    ELSE Num(-((-s.q[1]) \div s.q[2]))

\* Number.prototype.toFixed(1), as the text it produces: "NaN", or a sign
\* and the magnitude rounded to tenths (a tie goes to the larger magnitude)
toFixed1(q) ==
    IF isNaN(q) THEN [nan |-> TRUE, neg |-> FALSE, tenths |-> 0]
    ELSE LET m == Abs(q[1])
             whole == m \div q[2]
             rem == m % q[2]
         IN  [nan |-> FALSE, neg |-> q[1] < 0,
              tenths |-> 10 * whole + (20 * rem + q[2]) \div (2 * q[2])]

(***************************************************************************)
(* calculateAndDraw, step 2: the steel layers                              *)
(***************************************************************************)
\* Variant of sideLayers that spaces by (h - 2*cover)/(ny - 2), so that the
\* last side layer lands on the bottom layer (Thm_C6 depends on the spacing)
sideLayersOverBottom(h, cover, barArea, ny) ==
    IF QGt(ny, Num(2))
    THEN LET verticalSpacing ==
                 QDiv(QSub(h, QMul(Num(2), cover)), QSub(ny, Num(2)))
         IN  [i \in 1..(ny[1] - 2) |->
                 [y |-> QAdd(cover, QMul(Num(i), verticalSpacing)),
                  As |-> QMul(Num(2), barArea)]]
    ELSE <<>>

sideLayers(h, cover, barArea, ny) ==
    IF QGt(ny, Num(2))
    THEN LET sideBarsPerLayer == Num(2)
             numSideLayers == ny[1] - 2
             verticalSpacing ==
                 QDiv(QSub(h, QMul(Num(2), cover)), QSub(ny, Num(1)))
         IN  [i \in 1..numSideLayers |->
                 [y |-> QAdd(cover, QMul(Num(i), verticalSpacing)),
                  As |-> QMul(sideBarsPerLayer, barArea)]]
    ELSE <<>>

buildSteelLayers(h, cover, barArea, nx, ny) ==
    << [y |-> cover, As |-> QMul(nx, barArea)],
       [y |-> QSub(h, cover), As |-> QMul(nx, barArea)] >>
    \o sideLayers(h, cover, barArea, ny)

\* steelLayers.reduce((sum, layer) => sum + layer.As, 0)
RECURSIVE sumAs(_, _)
sumAs(layers, n) ==
    IF n = 0 THEN Zero ELSE QAdd(sumAs(layers, n - 1), layers[n].As)

\* Variant of totalSteelArea that counts the top and bottom layers only
\* (Thm_C5 depends on the sum running over every layer)
totalSteelAreaTopBottom(layers) == sumAs(layers, 2)

totalSteelArea(layers) == sumAs(layers, Len(layers))

(***************************************************************************)
(* step 3: beta1                                                           *)
(***************************************************************************)
calcBeta1(fc) ==
    IF QGt(fc, Num(280))
    THEN LET beta1 == QSub(<<17, 20>>,
                           QDiv(QMul(<<1, 20>>, QSub(fc, Num(280))), Num(70)))
         IN  IF QLt(beta1, <<13, 20>>) THEN <<13, 20>> ELSE beta1
    ELSE <<17, 20>>

(***************************************************************************)
(* calculatePoint                                                          *)
(***************************************************************************)
\* Variant of blockDepth without the cap at h (Thm_C8 depends on the cap)
blockDepthUncapped(beta1, c, h) == QMul(beta1, c)

\* let a = beta1 * c; if (a > h) a = h;
blockDepth(beta1, c, h) ==
    LET a == QMul(beta1, c) IN IF QGt(a, h) THEN h ELSE a

\* if (fs > fy) fs = fy;
clampCompression(fs, fy) == IF QGt(fs, fy) THEN fy ELSE fs

\* if (fs < -fy) fs = -fy;
clampTension(fs, fy) == IF QLt(fs, QNeg(fy)) THEN QNeg(fy) ELSE fs

\* Variant of steelStress without the clamp at -fy (Thm_C7 depends on it)
steelStressNoTensionClamp(c, d, fy) ==
    clampCompression(QMul(Es, QDiv(QMul(epsilon_cu, QSub(c, d)), c)), fy)

\* the stress of one layer at depth d: strain by similar triangles, then the
\* two yield clamps
steelStress(c, d, fy) ==
    clampTension(clampCompression(QMul(Es, QDiv(QMul(epsilon_cu, QSub(c, d)), c)), fy), fy)

\* One pass of steelLayers.forEach, from the stress on: F_s = fs * layer.As
\* and M_s = F_s * (h/2 - d)
layerMoment(fs, F_s, h, d) ==
    [fs |-> fs, F_s |-> F_s, M_s |-> QMul(F_s, QSub(QDiv(h, Num(2)), d))]

layerStressed(fs, h, layer) == layerMoment(fs, QMul(fs, layer.As), h, layer.y)

layerForce(c, h, fy, layer) == layerStressed(steelStress(c, layer.y, fy), h, layer)

\* Pn += F_s; Mn += M_s;   (with the fs and F_s of the layer kept for inspection)
accumulate(acc, lf) ==
    [Pn |-> QAdd(acc.Pn, lf.F_s), Mn |-> QAdd(acc.Mn, lf.M_s),
     fs |-> Append(acc.fs, lf.fs), F_s |-> Append(acc.F_s, lf.F_s)]

\* Pn and Mn after the first n layers
RECURSIVE addSteel(_, _, _, _, _, _)
addSteel(concrete, c, h, fy, steelLayers, n) ==
    IF n = 0 THEN concrete
    ELSE accumulate(addSteel(concrete, c, h, fy, steelLayers, n - 1),
                    layerForce(c, h, fy, steelLayers[n]))

\* const C_c = 0.85 * fc * b * a;
concreteForce(fc, b, a) == QMul(QMul(QMul(<<17, 20>>, fc), b), a)

\* const M_c = C_c * (h / 2 - a / 2);
concreteMoment(C_c, h, a) == QMul(C_c, QSub(QDiv(h, Num(2)), QDiv(a, Num(2))))

\* return { x: Mn / 100000, y: Pn / 1000 }, with the locals a, C_c, M_c, fs
\* and F_s of the call kept for inspection
pointOf(c, a, C_c, M_c, all) ==
    [c |-> c, a |-> a, C_c |-> C_c, M_c |-> M_c, fs |-> all.fs, F_s |-> all.F_s,
     x |-> QDiv(all.Mn, Num(100000)), y |-> QDiv(all.Pn, Num(1000))]

\* the body of calculatePoint once a, then C_c, then M_c are known
afterMoment(c, a, C_c, M_c, h, fy, steelLayers) ==
    pointOf(c, a, C_c, M_c,
            addSteel([Pn |-> QAdd(Zero, C_c), Mn |-> QAdd(Zero, M_c),
                      fs |-> <<>>, F_s |-> <<>>],
                     c, h, fy, steelLayers, Len(steelLayers)))

afterForce(c, a, C_c, h, fy, steelLayers) ==
    afterMoment(c, a, C_c, concreteMoment(C_c, h, a), h, fy, steelLayers)

afterDepth(c, a, b, h, fc, fy, steelLayers) ==
    afterForce(c, a, concreteForce(fc, b, a), h, fy, steelLayers)

calculatePoint(c, b, h, fc, fy, beta1, steelLayers) ==
    afterDepth(c, blockDepth(beta1, c, h), b, h, fc, fy, steelLayers)

(***************************************************************************)
(* calculateAndDraw, step 4: the points                                    *)
(***************************************************************************)
\* c_ratios.forEach over the first n ratios: the calls made, in order
RECURSIVE sweepPoints(_, _, _, _, _, _, _)
sweepPoints(b, h, fc, fy, beta1, steelLayers, n) ==
    IF n = 0 THEN <<>>
    ELSE Append(sweepPoints(b, h, fc, fy, beta1, steelLayers, n - 1),
                calculatePoint(QMul(c_ratios[n], h), b, h, fc, fy, beta1, steelLayers))

\* Variant of maxMoment that overwrites maxM at every point (Thm_C9 depends
\* on the comparison)
maxMomentLast(sweep, n) == IF n = 0 THEN Zero ELSE sweep[n].x

\* let maxM = 0; ... if (pt.x > maxM) maxM = pt.x;   after the first n points
RECURSIVE maxMoment(_, _)
maxMoment(sweep, n) ==
    IF n = 0 THEN Zero
    ELSE LET maxM == maxMoment(sweep, n - 1)
         IN  IF QGt(sweep[n].x, maxM) THEN sweep[n].x ELSE maxM

pureCompression(fc, fy, Ag, Ast) ==
    QDiv(QAdd(QMul(QMul(<<17, 20>>, fc), QSub(Ag, Ast)), QMul(fy, Ast)), Num(1000))

\* Variant of pureTension without the sign (Thm_C4 depends on Pt being the
\* tension capacity)
pureTensionUnsigned(fy, Ast) == QDiv(QMul(fy, Ast), Num(1000))

pureTension(fy, Ast) == QDiv(QMul(QNeg(fy), Ast), Num(1000))

\* points, in the order of the pushes
assemblePoints(Po, sweep, Pt) ==
    << [x |-> Zero, y |-> Po] >>
    \o [k \in 1..Len(sweep) |-> [x |-> sweep[k].x, y |-> sweep[k].y]]
    \o << [x |-> Zero, y |-> Pt] >>

\* The locals of calculateAndDraw at its end, given the inputs, the layers,
\* the section and the points
summary(in, steelLayers, Ag, Ast, beta1, Po, sweep, Pt) ==
    [done |-> TRUE,
     fc |-> in.fc, fy |-> in.fy, b |-> in.b, h |-> in.h, cover |-> in.cover,
     barArea |-> in.barArea, nx |-> in.nx, ny |-> in.ny,
     steelLayers |-> steelLayers, Ag |-> Ag, Ast |-> Ast, beta1 |-> beta1,
     Po |-> Po, Pt |-> Pt, sweep |-> sweep,
     points |-> assemblePoints(Po, sweep, Pt),
     Mo_approx |-> maxMoment(sweep, Len(sweep))]

\* step 4, given Ag, Ast and beta1
interaction(in, steelLayers, Ag, Ast, beta1) ==
    summary(in, steelLayers, Ag, Ast, beta1,
            pureCompression(in.fc, in.fy, Ag, Ast),
            sweepPoints(in.b, in.h, in.fc, in.fy, beta1, steelLayers, Len(c_ratios)),
            pureTension(in.fy, Ast))

\* Ag, Ast and step 3, given the layers
section(in, steelLayers) ==
    interaction(in, steelLayers, QMul(in.b, in.h), totalSteelArea(steelLayers),
                calcBeta1(in.fc))

\* Everything calculateAndDraw computes once the validation has passed
diagram(fc, fy, b, h, cover, barArea, nx, ny) ==
    section([fc |-> fc, fy |-> fy, b |-> b, h |-> h, cover |-> cover,
             barArea |-> barArea, nx |-> nx, ny |-> ny],
            buildSteelLayers(h, cover, barArea, nx, ny))

(***************************************************************************)
(* The page                                                                *)
(***************************************************************************)
VARIABLES
    dom,        \* the text of each form field, by element id
    loaded,     \* DOMContentLoaded has fired and the listeners are attached
    pmChart,    \* the module-level chart handle: null, or an index into charts
    charts,     \* every Chart constructed so far: is it live, and its data
    valPo,      \* textContent of #val-Po
    valMo,      \* textContent of #val-Mo
    run         \* the locals of the last call that passed the validation

vars == <<dom, loaded, pmChart, charts, valPo, valMo, run>>

null == 0
Markup == [nan |-> FALSE, neg |-> FALSE, tenths |-> -1]   \* the text the HTML ships with
NoRun == [done |-> FALSE]

MaxCharts == 3

\* Texts a user can leave in each field of the form
Texts ==
    [fc      |-> {Numeral(280, 1), Junk},
     fy      |-> {Numeral(4200, 1), Junk},
     b       |-> {Numeral(30, 1), Junk},
     h       |-> {Numeral(40, 1), Junk},
     cover   |-> {Numeral(4, 1), Numeral(45, 1), Junk},
     barSize |-> {Numeral(57, 20), Junk},
     nx      |-> {Numeral(3, 1), Junk},
     ny      |-> {Numeral(3, 1), Numeral(1, 1), Junk}]

\* Texts the page can be loaded with (a wider grid, for the first calculation)
LoadTexts ==
    [fc      |-> {Numeral(280, 1), Numeral(350, 1), Numeral(700, 1), Junk},
     fy      |-> {Numeral(2800, 1), Numeral(4200, 1), Junk},
     b       |-> {Numeral(30, 1), Junk},
     h       |-> {Numeral(20, 1), Numeral(40, 1), Junk},
     cover   |-> {Numeral(4, 1), Numeral(10, 1), Numeral(30, 1), Junk},
     barSize |-> {Numeral(57, 20), Numeral(0, 1), Junk},
     nx      |-> {Numeral(2, 1), Numeral(7, 2), Numeral(0, 1), Junk},
     ny      |-> {Numeral(1, 1), Numeral(2, 1), Numeral(3, 1), Numeral(4, 1),
                  Numeral(5, 1), Junk}]

Forms(texts) ==
    [fc : texts.fc, fy : texts.fy, b : texts.b, h : texts.h, cover : texts.cover,
     barSize : texts.barSize, nx : texts.nx, ny : texts.ny]

\* Variant of drawChart that never destroys the held chart (Thm_C10 depends
\* on the destroy)
drawChartNoDestroy(dataPoints) ==
    /\ Len(charts) < MaxCharts
    /\ charts' = Append(charts, [live |-> TRUE, data |-> dataPoints])
    /\ pmChart' = Len(charts) + 1

\* if (pmChart) pmChart.destroy();  pmChart = new Chart(ctx, {... data: dataPoints})
drawChart(dataPoints) ==
    /\ Len(charts) < MaxCharts
    /\ LET kept == IF pmChart # null
                   THEN [charts EXCEPT ![pmChart] = [live |-> FALSE, data |-> <<>>]]
                   ELSE charts
       IN  charts' = Append(kept, [live |-> TRUE, data |-> dataPoints])
    /\ pmChart' = Len(charts) + 1

\* One call of calculateAndDraw on the form f, from the reads to the return.
\* run' holds the locals of the call; the summary text and the chart data are
\* read from it (Po, Mo_approx and points are computed once).
calculateAndDraw(f) ==
    LET fc == parseFloat(f.fc)
        fy == parseFloat(f.fy)
        b == parseFloat(f.b)
        h == parseFloat(f.h)
        cover == parseFloat(f.cover)
        barArea == parseFloat(f.barSize)
        nx == parseInt(f.nx)
        ny == parseInt(f.ny)
    IN  IF isNaN(fc) \/ isNaN(fy) \/ isNaN(b) \/ isNaN(h) \/ isNaN(cover)
           \/ isNaN(nx) \/ isNaN(ny)
        THEN UNCHANGED <<pmChart, charts, valPo, valMo, run>>
        ELSE /\ run' = diagram(fc, fy, b, h, cover, barArea, nx, ny)
             /\ valPo' = toFixed1(run'.Po)
             /\ valMo' = toFixed1(run'.Mo_approx)
             /\ drawChart(run'.points)

\* document.addEventListener('DOMContentLoaded', ...): the initial calculation
DOMContentLoaded ==
    /\ ~loaded
    /\ loaded' = TRUE
    /\ UNCHANGED dom
    /\ calculateAndDraw(dom)

\* 'input' on a field: the user has changed its text
InputEvent ==
    /\ loaded
    /\ \E id \in DOMAIN Texts : \E text \in Texts[id] :
          /\ dom' = [dom EXCEPT ![id] = text]
          /\ calculateAndDraw([dom EXCEPT ![id] = text])
    /\ UNCHANGED loaded

\* 'change' on a field: the text typed before is committed
ChangeEvent ==
    /\ loaded
    /\ calculateAndDraw(dom)
    /\ UNCHANGED <<dom, loaded>>

\* 'click' on #calcBtn
Click ==
    /\ loaded
    /\ calculateAndDraw(dom)
    /\ UNCHANGED <<dom, loaded>>

Start(texts) ==
    /\ dom \in Forms(texts)
    /\ loaded = FALSE
    /\ pmChart = null
    /\ charts = <<>>
    /\ valPo = Markup
    /\ valMo = Markup
    /\ run = NoRun

Init == Start(Texts)

Next == DOMContentLoaded \/ InputEvent \/ ChangeEvent \/ Click

Spec == Init /\ [][Next]_vars

\* The first calculation alone, over the wider grid of forms
InitLoad == Start(LoadTexts)

NextLoad == DOMContentLoaded

SpecLoad == InitLoad /\ [][NextLoad]_vars

(***************************************************************************)
(* Properties                                                              *)
(***************************************************************************)
\* The invariants of the input set: all values strictly positive,
\* h > 2*cover, nx >= 1, ny >= 2
Valid(r) ==
    /\ QGt(r.fc, Zero) /\ QGt(r.fy, Zero) /\ QGt(r.b, Zero) /\ QGt(r.h, Zero)
    /\ QGt(r.cover, Zero) /\ QGt(r.barArea, Zero)
    /\ QGt(r.h, QMul(Num(2), r.cover))
    /\ QGe(r.nx, Num(1)) /\ QGe(r.ny, Num(2))

Numeric(r) ==
    ~(isNaN(r.fc) \/ isNaN(r.fy) \/ isNaN(r.b) \/ isNaN(r.h) \/ isNaN(r.cover)
      \/ isNaN(r.barArea) \/ isNaN(r.nx) \/ isNaN(r.ny))

ValidRun == run.done /\ Valid(run)

\* The ratio ladder of the claims, in twentieths
Ladder20 == <<40, 30, 24, 22, 20, 18, 16, 14, 12, 11, 10, 9, 8, 7, 6, 5, 4, 3, 2, 1>>

\* C1: a run on valid inputs produces exactly 22 points: (0, Po), then the
\* point of each ladder ratio in ladder order, with c = r*h strictly positive
\* and strictly decreasing, then (0, Pt); and the chart is given exactly this
\* sequence, in this order.
Thm_C1 ==
    ValidRun =>
        /\ Len(run.points) = 22
        /\ Len(run.sweep) = 20
        /\ run.points[1] = [x |-> Zero, y |-> run.Po]
        /\ run.points[22] = [x |-> Zero, y |-> run.Pt]
        /\ \A k \in 1..20 :
              /\ run.sweep[k].c = QMul(Norm(Ladder20[k], 20), run.h)
              /\ QGt(run.sweep[k].c, Zero)
              /\ k < 20 => QGt(run.sweep[k].c, run.sweep[k + 1].c)
              /\ run.points[k + 1] = [x |-> run.sweep[k].x, y |-> run.sweep[k].y]
        /\ pmChart # null
        /\ charts[pmChart].data = run.points

Wit_C1 ==
    /\ ValidRun
    /\ pmChart # null
    /\ Len(charts[pmChart].data) = 22
    /\ QGt(run.sweep[1].c, run.h)
    /\ QLt(run.sweep[20].c, run.cover)

\* C2 (as claimed): a handler run on a form in which any of the eight fields
\* is non-numeric changes neither the chart nor the summary text and computes
\* no points.
AnyNaN(f) ==
    \/ isNaN(parseFloat(f.fc)) \/ isNaN(parseFloat(f.fy)) \/ isNaN(parseFloat(f.b))
    \/ isNaN(parseFloat(f.h)) \/ isNaN(parseFloat(f.cover))
    \/ isNaN(parseFloat(f.barSize))
    \/ isNaN(parseInt(f.nx)) \/ isNaN(parseInt(f.ny))

Orig_C2 ==
    [][(loaded' /\ AnyNaN(dom')) => UNCHANGED <<pmChart, charts, valPo, valMo, run>>]_vars

\* C3 (as claimed): no diagram is ever produced from numeric inputs that
\* violate an invariant, and no layer is built outside [0, h].
Orig_C3 ==
    (run.done /\ Numeric(run)) =>
        /\ Valid(run)
        /\ \A j \in 1..Len(run.steelLayers) :
              /\ QGe(run.steelLayers[j].y, Zero)
              /\ QLe(run.steelLayers[j].y, run.h)

ClosedAst(r) ==
    QAdd(QMul(QMul(Num(2), r.nx), r.barArea),
         QMul(QMul(Num(2), QSub(r.ny, Num(2))), r.barArea))

Thm_C5 ==
    ValidRun =>
        LET Ag == QMul(run.b, run.h)
            Ast == ClosedAst(run)
        IN  /\ run.Ag = Ag
            /\ run.Ast = Ast
            /\ run.Po = QDiv(QAdd(QMul(QMul(<<17, 20>>, run.fc), QSub(Ag, Ast)),
                                  QMul(run.fy, Ast)), Num(1000))
            /\ run.Pt = QDiv(QNeg(QMul(run.fy, Ast)), Num(1000))
            /\ run.points[1].y = run.Po
            /\ run.points[22].y = run.Pt

\* fc=280, fy=4200, b=30, barArea=2.85, nx=3, ny=3: Ast = 8*2.85
Wit_C5 ==
    /\ ValidRun
    /\ run.fc = Num(280) /\ run.fy = Num(4200) /\ run.b = Num(30)
    /\ run.barArea = <<57, 20>> /\ run.nx = Num(3) /\ run.ny = Num(3)
    /\ run.Ast = <<114, 5>>
    /\ run.Pt = <<-2394, 25>>

\* C6: on valid inputs the builder makes exactly ny layers: top (cover,
\* nx*barArea), bottom (h - cover, nx*barArea) and ny - 2 side layers of area
\* 2*barArea, side layer i at cover + i*(h - 2*cover)/(ny - 1), strictly
\* between the top and the bottom layer; depths are pairwise distinct and in
\* [0, h]; with ny <= 2 there is no side layer.
Thm_C6 ==
    /\ ValidRun =>
        LET L == run.steelLayers
            n == run.ny[1]
        IN  /\ Len(L) = n
            /\ L[1] = [y |-> run.cover, As |-> QMul(run.nx, run.barArea)]
            /\ L[2] = [y |-> QSub(run.h, run.cover), As |-> QMul(run.nx, run.barArea)]
            /\ \A i \in 1..(n - 2) :
                  /\ L[2 + i].As = QMul(Num(2), run.barArea)
                  /\ L[2 + i].y =
                        QAdd(run.cover,
                             QDiv(QMul(Num(i), QSub(run.h, QMul(Num(2), run.cover))),
                                  Num(n - 1)))
                  /\ QGt(L[2 + i].y, run.cover)
                  /\ QLt(L[2 + i].y, QSub(run.h, run.cover))
            /\ \A i, j \in 1..Len(L) : i # j => L[i].y # L[j].y
            /\ \A i \in 1..Len(L) : QGe(L[i].y, Zero) /\ QLe(L[i].y, run.h)
    /\ (run.done /\ QLe(run.ny, Num(2))) => Len(run.steelLayers) = 2

Wit_C6 ==
    /\ ValidRun
    /\ run.ny = Num(5)
    /\ Len(run.steelLayers) = 5
    /\ run.steelLayers[5].As = QMul(Num(2), run.barArea)

\* C7: on valid inputs, for every layer and every swept c, fs is
\* Es*epsilon_cu*(c - d)/c clamped to [-fy, fy]; so |F_s| <= fy*area and the
\* P of every swept point is at least Pt.
Clamped(x, lo, hi) == IF QGt(x, hi) THEN hi ELSE IF QLt(x, lo) THEN lo ELSE x

Thm_C7 ==
    ValidRun =>
        \A k \in 1..Len(run.sweep) :
            LET p == run.sweep[k] IN
            /\ Len(p.fs) = Len(run.steelLayers)
            /\ \A j \in 1..Len(run.steelLayers) :
                  LET d == run.steelLayers[j].y
                      area == run.steelLayers[j].As
                      raw == QDiv(QMul(Num(6120), QSub(p.c, d)), p.c)
                  IN  /\ p.fs[j] = Clamped(raw, QNeg(run.fy), run.fy)
                      /\ QGe(p.fs[j], QNeg(run.fy))
                      /\ QLe(p.fs[j], run.fy)
                      /\ p.F_s[j] = QMul(p.fs[j], area)
                      /\ QLe(p.F_s[j], QMul(run.fy, area))
                      /\ QGe(p.F_s[j], QNeg(QMul(run.fy, area)))
            /\ QGe(p.y, run.Pt)

Wit_C7 ==
    /\ ValidRun
    /\ \E k \in 1..Len(run.sweep) :
          \E j1, j2, j3 \in 1..Len(run.steelLayers) :
              /\ run.sweep[k].fs[j1] = run.fy
              /\ run.sweep[k].fs[j2] = QNeg(run.fy)
              /\ QLt(run.sweep[k].fs[j3], run.fy)
              /\ QGt(run.sweep[k].fs[j3], QNeg(run.fy))

\* C8: on valid inputs the block depth a is min(beta1*c, h); where
\* beta1*c > h, a = h, M_c = 0 and C_c = 0.85*fc*b*h; and beta1 is 0.85 for
\* fc <= 280, else 0.85 - 0.05*(fc - 280)/70 floored at 0.65, so within
\* [0.65, 0.85].
Thm_C8 ==
    ValidRun =>
        /\ QGe(run.beta1, <<13, 20>>)
        /\ QLe(run.beta1, <<17, 20>>)
        /\ QLe(run.fc, Num(280)) => run.beta1 = <<17, 20>>
        /\ QGt(run.fc, Num(280)) =>
              LET lin == QSub(<<17, 20>>, QDiv(QSub(run.fc, Num(280)), Num(1400)))
              IN  run.beta1 = IF QLt(lin, <<13, 20>>) THEN <<13, 20>> ELSE lin
        /\ \A k \in 1..Len(run.sweep) :
              LET p == run.sweep[k]
                  bc == QMul(run.beta1, p.c)
              IN  /\ QLe(p.a, run.h)
                  /\ QLe(p.a, bc)
                  /\ p.a = bc \/ p.a = run.h
                  /\ p.C_c = QMul(QMul(QMul(<<17, 20>>, run.fc), run.b), p.a)
                  /\ p.M_c = QMul(p.C_c, QDiv(QSub(run.h, p.a), Num(2)))
                  /\ QGt(bc, run.h) =>
                        /\ p.a = run.h
                        /\ p.M_c = Zero
                        /\ p.C_c = QMul(QMul(QMul(<<17, 20>>, run.fc), run.b), run.h)

Wit_C8 ==
    /\ ValidRun
    /\ run.fc = Num(700)
    /\ run.beta1 = <<13, 20>>
    /\ QGt(QMul(run.beta1, run.sweep[1].c), run.h)
    /\ run.sweep[1].a = run.h
    /\ QLt(run.sweep[20].a, run.h)

\* C9: on valid inputs Mo_approx is the maximum M over the 20 swept points.
Thm_C9 ==
    ValidRun =>
        /\ \E k \in 1..Len(run.sweep) : run.sweep[k].x = run.Mo_approx
        /\ \A k \in 1..Len(run.sweep) : QLe(run.sweep[k].x, run.Mo_approx)

Wit_C9 ==
    /\ ValidRun
    /\ QGt(run.Mo_approx, Zero)
    /\ QLt(run.sweep[1].x, run.Mo_approx)
    /\ QLt(run.sweep[20].x, run.Mo_approx)

\* C10: after every handler run at most one chart is live, namely the one
\* pmChart holds, and every other chart ever created is destroyed; a run that
\* replaces the chart has destroyed the one held before; a run that returns
\* early on NaN input leaves pmChart and every chart as they were.
Rejected(f) ==
    \/ isNaN(parseFloat(f.fc)) \/ isNaN(parseFloat(f.fy)) \/ isNaN(parseFloat(f.b))
    \/ isNaN(parseFloat(f.h)) \/ isNaN(parseFloat(f.cover))
    \/ isNaN(parseInt(f.nx)) \/ isNaN(parseInt(f.ny))

Thm_C10 ==
    [][/\ \A i \in 1..Len(charts') : charts'[i].live <=> (i = pmChart')
       /\ Cardinality({i \in 1..Len(charts') : charts'[i].live}) <= 1
       /\ pmChart' # pmChart =>
             /\ Len(charts') = Len(charts) + 1
             /\ pmChart' = Len(charts')
             /\ pmChart # null => ~charts'[pmChart].live
       /\ (loaded' /\ Rejected(dom')) => UNCHANGED <<pmChart, charts>>
       /\ (loaded' /\ ~Rejected(dom')) => pmChart' # pmChart]_vars

Wit_C10 ==
    /\ Len(charts) >= 2
    /\ pmChart = Len(charts)
    /\ charts[pmChart].live
    /\ ~charts[1].live
    /\ Rejected(dom)

====
